---- MODULE Spec2Model ----
(***************************************************************************)
(* Model of the two auxiliary scripts of mosdns:                           *)
(*   scripts/update_chn_ip_domain.py  update_ip_list()                     *)
(*   release.py                       go_build()                           *)
(*                                                                         *)
(* Three specifications share the module:                                  *)
(*   Spec         one run of update_ip_list over a bounded feed            *)
(*   SpecPrefix   the IPv4 prefix-length arithmetic of line 31, in the     *)
(*                IEEE-754 double steps in which CPython evaluates it      *)
(*   SpecRelease  one run of go_build                                      *)
(***************************************************************************)
EXTENDS Integers, Sequences, FiniteSets, TLC

VARIABLES
    status,          \* res.status_code of the feed fetch
    feed,            \* res.text.splitlines(): a sequence of lines, each a sequence of '|'-fields
    pc,              \* position of update_ip_list
    idx,             \* number of lines the for loop has consumed
    ipNetwork_list,  \* the list of netaddr.IPNetwork values
    file,            \* ./chn_ip.list on disk
    warnings,        \* lines logged by logging.warning
    error,           \* the exception that ended the run, "none" while there is none
    k,               \* SpecPrefix: the unit count is 2^k
    ppc,             \* SpecPrefix: position in the evaluation of line 31
    numErr,          \* SpecPrefix: math.log(count) - k*fl(ln 2), in units of 2^-53
    quotErr,         \* SpecPrefix: math.log(count, 2) - k, in units of 2^-53
    prefix,          \* SpecPrefix: cidr_prefix_length
    args,            \* SpecRelease: the parsed command line
    rpc,             \* SpecRelease: position of go_build
    envs,            \* SpecRelease: the global build matrix
    VERSION,         \* SpecRelease: the version string handed to the linker
    built            \* SpecRelease: per target the for loop has reached, what it produced

ipVars == <<status, feed, pc, idx, ipNetwork_list, file, warnings, error>>
prefixVars == <<k, ppc, numErr, quotErr, prefix>>
releaseVars == <<args, rpc, envs, VERSION, built>>
vars == <<ipVars, prefixVars, releaseVars>>

(***************************************************************************)
(* Bounds                                                                  *)
(***************************************************************************)
MaxLines == 3


(***************************************************************************)
(* Arithmetic helpers                                                      *)
(***************************************************************************)
Pow2(n) == IF n <= 0 THEN 1 ELSE 2^n

\* floor(log2 n) for n >= 1
RECURSIVE FloorLog2(_)
FloorLog2(n) == IF n < 2 THEN 0 ELSE 1 + FloorLog2(n \div 2)

IsPow2(n) == n >= 1 /\ Pow2(FloorLog2(n)) = n

\* ceil(log2 n) for n >= 1
CeilLog2(n) == IF IsPow2(n) THEN FloorLog2(n) ELSE FloorLog2(n) + 1

Abs(n) == IF n < 0 THEN 0 - n ELSE n

(***************************************************************************)
(* Line 31: cidr_prefix_length = int(32 - math.log(count, 2))              *)
(*                                                                         *)
(* CPython evaluates math.log(x, 2) as the double division                 *)
(* log(x) / log(2.0), then 32 - q in double arithmetic, then int()         *)
(* truncates toward zero.  For count = 2^k the three roundings are         *)
(* followed here exactly, on integers, every quantity being the distance   *)
(* of a double from an integer in units of 2^-53:                          *)
(*   fl(ln 2) = LN2_MANT * 2^-53, ln 2 = (LN2_MANT + LN2_NEXT16/2^16 + ..) *)
(*   * 2^-53; only the low and the high bits of LN2_MANT are needed.       *)
(***************************************************************************)
IPV4_WIDTH == 32             \* the 32 of line 31
LN2_HIGH21 == 1453634        \* 0x162E42, the high 21 bits of the mantissa 0x162E42FEFA39EF of fl(ln 2)
LN2_LOW6 == 47               \* 0x2F, its low 6 bits
LN2_NEXT16 == 13689          \* 0x3579, the 16 bits of ln 2 that follow the mantissa

\* the exponent s with k * ln 2 < 2^s: fl(k ln 2) is a multiple of 2^s units
RECURSIVE NumScaleFrom(_, _)
NumScaleFrom(n, s) == IF n * LN2_HIGH21 >= Pow2(21 + s) THEN NumScaleFrom(n, s + 1) ELSE s
NumScale(n) == NumScaleFrom(n, 0)

\* math.log(2^n) = fl(n ln 2), as its distance from n * fl(ln 2)
LogNumErr(n) ==
    IF n = 0 THEN 0
    ELSE LET u == Pow2(NumScale(n))
             low == (n * LN2_LOW6) % u
             r == low * 65536 + n * LN2_NEXT16
             q == (2 * r + u * 65536) \div (2 * u * 65536)
         IN q * u - low

\* math.log(2^n, 2) = fl(fl(n ln 2) / fl(ln 2)) = fl(n + e / LN2_MANT), as its distance from n
LogQuotErr(n, e) ==
    IF n = 0 \/ e = 0 THEN 0
    ELSE LET t == FloorLog2(n)
             sp == IF e < 0 /\ Pow2(t) = n THEN Pow2(t) ELSE Pow2(t + 1)
             q == (2 * Abs(e) * Pow2(21) + LN2_HIGH21 * sp) \div (2 * LN2_HIGH21 * sp)
         IN IF e < 0 THEN 0 - q * sp ELSE q * sp

\* int(32 - q) for q = n + d * 2^-53: the double subtraction (ties to even), then truncation
IntOfDiff(n, d) ==
    LET m == IPV4_WIDTH - n
    IN IF d <= 0 \/ m = 0 THEN m
       ELSE LET t == FloorLog2(m)
                sp == IF Pow2(t) = m THEN Pow2(t) ELSE Pow2(t + 1)
                q == (2 * d + sp - 1) \div (2 * sp)
            IN IF q = 0 THEN m ELSE m - 1

\* line 31 for count = 2^n
PrefixOfPow2(n) == IntOfDiff(n, LogQuotErr(n, LogNumErr(n)))

\* line 31 for any count in 1 .. 2^31-1; off the powers of two log2 is far from
\* every integer, so that rounding cannot change what int() truncates to
PrefixLength(count) ==
    IF IsPow2(count) THEN PrefixOfPow2(FloorLog2(count))
    ELSE IPV4_WIDTH - CeilLog2(count)


(***************************************************************************)
(* The feed: lines of the delegation file, already split on '|'.           *)
(* 'apnic|CN|ipv4|1.0.0.0|256|20110414|allocated' is the sequence          *)
(* <<"apnic","CN","ipv4","1.0.0.0","256","20110414","allocated">>.         *)
(***************************************************************************)
Record(cc, type, start, value) == <<"apnic", cc, type, start, value, "20110414", "allocated">>

FeedLines ==
    { Record("CN", "ipv4", "1.0.0.0", "256"),
      Record("CN", "ipv4", "1.0.1.0", "256"),
      Record("CN", "ipv4", "1.0.0.0", "512"),
      Record("CN", "ipv4", "1.0.1.0", "512"),
      Record("CN", "ipv4", "1.0.2.0", "512"),
      Record("CN", "ipv4", "1.0.0.0", "192"),
      Record("CN", "ipv4", "1.0.0.0", "abc"),
      Record("CN", "ipv4", "1.0.0.0", "0"),
      Record("CN", "ipv4", "1.0.0.256", "256"),
      <<"apnic", "CN", "ipv4", "1.0.0.0">>,
      Record("JP", "ipv4", "1.0.3.0", "256"),
      Record("CN", "ipv6", "::", "127"),
      Record("CN", "ipv6", "::2", "127") }

RECURSIVE SeqsUpTo(_, _)
SeqsUpTo(S, n) ==
    IF n = 0 THEN {<<>>}
    ELSE LET shorter == SeqsUpTo(S, n - 1)
         IN shorter \cup {Append(f, x) : f \in {g \in shorter : Len(g) = n - 1}, x \in S}

Feeds == SeqsUpTo(FeedLines, MaxLines)

\* int(s) of a field: defined on the decimal strings, ValueError elsewhere
DecimalValue ==
    ("0" :> 0) @@ ("126" :> 126) @@ ("127" :> 127) @@ ("192" :> 192) @@
    ("256" :> 256) @@ ("512" :> 512) @@ ("20110414" :> 20110414)
IsDecimal(s) == s \in DOMAIN DecimalValue

\* the address strings of the feed and of the merged blocks, with their integer values
IPv4Value ==
    ("1.0.0.0" :> 16777216) @@ ("1.0.1.0" :> 16777472) @@
    ("1.0.2.0" :> 16777728) @@ ("1.0.3.0" :> 16777984)
IPv6Value == ("::" :> 0) @@ ("::2" :> 2)

IPV6_WIDTH == 128
Width(version) == IF version = 4 THEN IPV4_WIDTH ELSE IPV6_WIDTH

\* netaddr.IPNetwork('<ip_start>/<prefix>\n') of lines 32 and 38 accepts an address of
\* either family with a prefix length inside the family's width
IPNetworkVersion(ip_start, prefixlen) ==
    IF ip_start \in DOMAIN IPv4Value /\ prefixlen \in 0..IPV4_WIDTH THEN 4
    ELSE IF ip_start \in DOMAIN IPv6Value /\ prefixlen \in 0..IPV6_WIDTH THEN 6
    ELSE 0

IPNetwork(ip_start, prefixlen) ==
    LET v == IPNetworkVersion(ip_start, prefixlen)
    IN [version |-> v,
        ip |-> IF v = 4 THEN IPv4Value[ip_start] ELSE IPv6Value[ip_start],
        prefixlen |-> prefixlen]

\* str(network): the address text and the prefix length of 'address/prefixlen'
FormatAddress(version, ip) ==
    IF version = 4 THEN CHOOSE a \in DOMAIN IPv4Value : IPv4Value[a] = ip
    ELSE CHOOSE a \in DOMAIN IPv6Value : IPv6Value[a] = ip
NetworkStr(n) == [address |-> FormatAddress(n.version, n.ip), prefixlen |-> n.prefixlen]

\* line.find('|CN|<family>|') != -1
Contains(line, family) ==
    \E j \in 2..(Len(line) - 2) : line[j] = "CN" /\ line[j + 1] = family

Outcome(nets, exc) == [nets |-> nets, exc |-> exc]

\* lines 27-32: the IPv4 branch on one line (elems[3] is field 4, elems[4] is field 5)
ParseIPv4(line) ==
    IF ~Contains(line, "ipv4") THEN Outcome(<<>>, "none")
    ELSE IF Len(line) < 5 THEN Outcome(<<>>, "IndexError")
    ELSE IF ~IsDecimal(line[5]) THEN Outcome(<<>>, "ValueError")
    ELSE IF DecimalValue[line[5]] <= 0 THEN Outcome(<<>>, "ValueError")
    ELSE LET cidr_prefix_length == PrefixLength(DecimalValue[line[5]])
         IN IF IPNetworkVersion(line[4], cidr_prefix_length) = 0
            THEN Outcome(<<>>, "AddrFormatError")
            ELSE Outcome(<<IPNetwork(line[4], cidr_prefix_length)>>, "none")

\* lines 34-38: the IPv6 branch on one line
ParseIPv6(line) ==
    IF ~Contains(line, "ipv6") THEN Outcome(<<>>, "none")
    ELSE IF Len(line) < 5 THEN Outcome(<<>>, "IndexError")
    ELSE IF ~IsDecimal(line[5]) THEN Outcome(<<>>, "AddrFormatError")
    ELSE IF IPNetworkVersion(line[4], DecimalValue[line[5]]) = 0
         THEN Outcome(<<>>, "AddrFormatError")
         ELSE Outcome(<<IPNetwork(line[4], DecimalValue[line[5]])>>, "none")

\* lines 26-40: the body of the for loop on one line; the IPv6 branch runs only when
\* the IPv4 branch raised nothing
ParseLine(line) ==
    LET r4 == ParseIPv4(line)
        r6 == ParseIPv6(line)
    IN IF r4.exc # "none" THEN r4 ELSE Outcome(r4.nets \o r6.nets, r6.exc)

\* line 39: the exceptions the loop body recovers from
Caught(exc) == exc = "IndexError"

\* a plausible slip on line 19: only server errors are treated as failures
FetchFailedServerOnly(code) == code >= 500

\* line 19
FetchFailed(code) == code # 200


(***************************************************************************)
(* netaddr.cidr_merge (called on line 43).  The library is not part of the *)
(* repository; the merge is modelled from section 4.1 of the               *)
(* specification: canonical networks, sorted by base address then prefix   *)
(* length, subsumed networks discarded, siblings merged to a fixed point.  *)
(***************************************************************************)
Size(n) == Pow2(Width(n.version) - n.prefixlen)
First(n) == n.ip - (n.ip % Size(n))
Last(n) == First(n) + Size(n) - 1
Cidr(n) == [n EXCEPT !.ip = First(n)]

\* a is a subset of b
Within(a, b) == a.version = b.version /\ First(b) <= First(a) /\ Last(a) <= Last(b)

NetBefore(a, b) ==
    \/ a.version < b.version
    \/ a.version = b.version /\ First(a) < First(b)
    \/ a.version = b.version /\ First(a) = First(b) /\ a.prefixlen < b.prefixlen

SortNetworks(nets) == SortSeq([i \in 1..Len(nets) |-> Cidr(nets[i])], NetBefore)

RECURSIVE Subsume(_, _)
Subsume(nets, accepted) ==
    IF nets = <<>> THEN accepted
    ELSE IF \E i \in 1..Len(accepted) : Within(Head(nets), accepted[i])
         THEN Subsume(Tail(nets), accepted)
         ELSE Subsume(Tail(nets), Append(accepted, Head(nets)))

\* the two halves of one parent block
Siblings(a, b) ==
    /\ a.version = b.version
    /\ a.prefixlen = b.prefixlen
    /\ a.prefixlen >= 1
    /\ First(a) # First(b)
    /\ First(a) - (First(a) % (2 * Size(a))) = First(b) - (First(b) % (2 * Size(b)))

Parent(a) == Cidr([a EXCEPT !.prefixlen = a.prefixlen - 1])

SiblingPairs(nets) ==
    {p \in (1..Len(nets)) \X (1..Len(nets)) : p[1] < p[2] /\ Siblings(nets[p[1]], nets[p[2]])}

RECURSIVE MergeSiblings(_)
MergeSiblings(nets) ==
    IF SiblingPairs(nets) = {} THEN nets
    ELSE LET p == CHOOSE q \in SiblingPairs(nets) :
                      \A r \in SiblingPairs(nets) : q[1] <= r[1]
             kept == [i \in 1..(Len(nets) - 1) |->
                          IF i < p[1] THEN nets[i]
                          ELSE IF i = p[1] THEN Parent(nets[i])
                          ELSE IF i < p[2] THEN nets[i] ELSE nets[i + 1]]
         IN MergeSiblings(kept)

cidr_merge(nets) == MergeSiblings(Subsume(SortNetworks(nets), <<>>))

(***************************************************************************)
(* update_ip_list                                                          *)
(***************************************************************************)
NoFile == [exists |-> FALSE, lines |-> <<>>]
StaleFile == [exists |-> TRUE, lines |-> <<[address |-> "1.0.0.0", prefixlen |-> 8]>>]

PrefixIdle == k = 0 /\ ppc = "idle" /\ numErr = 0 /\ quotErr = 0 /\ prefix = 0
ReleaseIdle ==
    /\ args = [i |-> [given |-> FALSE, value |-> 0], upx |-> FALSE]
    /\ rpc = "idle" /\ envs = <<>> /\ VERSION = "" /\ built = <<>>
IpIdle ==
    /\ status = 0 /\ feed = <<>> /\ pc = "idle" /\ idx = 0 /\ ipNetwork_list = <<>>
    /\ file = NoFile /\ warnings = <<>> /\ error = "none"

Init ==
    /\ status = 0
    /\ feed = <<>>
    /\ pc = "fetch"
    /\ idx = 0
    /\ ipNetwork_list = <<>>
    /\ file \in {NoFile, StaleFile}
    /\ warnings = <<>>
    /\ error = "none"
    /\ PrefixIdle
    /\ ReleaseIdle

\* lines 18-24: the response arrives; any status but 200 raises
Fetch ==
    /\ pc = "fetch"
    /\ \E code \in {200, 404, 500}, text \in Feeds :
         /\ status' = code
         /\ IF FetchFailed(code)
            THEN feed' = <<>> /\ pc' = "aborted" /\ error' = "status"
            ELSE feed' = text /\ pc' = "parse" /\ error' = error
    /\ UNCHANGED <<idx, ipNetwork_list, file, warnings>>
    /\ UNCHANGED <<prefixVars, releaseVars>>

\* lines 25-40: one iteration of the for loop
ParseStep ==
    /\ pc = "parse"
    /\ idx < Len(feed)
    /\ LET r == ParseLine(feed[idx + 1])
       IN /\ idx' = idx + 1
          /\ IF r.exc = "none"
             THEN /\ ipNetwork_list' = ipNetwork_list \o r.nets
                  /\ UNCHANGED <<warnings, pc, error>>
             ELSE IF Caught(r.exc)
             THEN /\ ipNetwork_list' = ipNetwork_list \o r.nets
                  /\ warnings' = Append(warnings, idx + 1)
                  /\ UNCHANGED <<pc, error>>
             ELSE /\ pc' = "aborted"
                  /\ error' = r.exc
                  /\ UNCHANGED <<ipNetwork_list, warnings>>
    /\ UNCHANGED <<status, feed, file>>
    /\ UNCHANGED <<prefixVars, releaseVars>>

\* a plausible slip on line 43: the merged list is computed and dropped
MergeStepUnassigned(nets) == nets

\* line 43: ipNetwork_list = netaddr.cidr_merge(ipNetwork_list)
MergeStep(nets) == cidr_merge(nets)

\* lines 42-43: the loop is over, the list is merged
Merge ==
    /\ pc = "parse"
    /\ idx = Len(feed)
    /\ ipNetwork_list' = MergeStep(ipNetwork_list)
    /\ pc' = "write"
    /\ UNCHANGED <<status, feed, idx, file, warnings, error>>
    /\ UNCHANGED <<prefixVars, releaseVars>>

\* a plausible slip on line 47: the comprehension stops one element early
OutputLinesShort(nets) == [i \in 1..(Len(nets) - 1) |-> NetworkStr(nets[i])]

\* line 47: the lines f.writelines receives
OutputLines(nets) == [i \in 1..Len(nets) |-> NetworkStr(nets[i])]

\* lines 46-49: the file is opened for writing (created or truncated) and written
Write ==
    /\ pc = "write"
    /\ file' = [exists |-> TRUE, lines |-> OutputLines(ipNetwork_list)]
    /\ pc' = "done"
    /\ UNCHANGED <<status, feed, idx, ipNetwork_list, warnings, error>>
    /\ UNCHANGED <<prefixVars, releaseVars>>

Next == Fetch \/ ParseStep \/ Merge \/ Write

Spec == Init /\ [][Next]_vars


(***************************************************************************)
(* What a whole run makes of a feed, as a function of the feed             *)
(***************************************************************************)
RECURSIVE ParseAll(_, _)
ParseAll(lines, nets) ==
    IF lines = <<>> THEN Outcome(nets, "none")
    ELSE LET r == ParseLine(Head(lines))
         IN IF r.exc = "none" \/ Caught(r.exc)
            THEN ParseAll(Tail(lines), nets \o r.nets)
            ELSE Outcome(<<>>, r.exc)

RunOf(lines) ==
    LET parsed == ParseAll(lines, <<>>)
    IN IF parsed.exc = "none"
       THEN [written |-> TRUE, lines |-> OutputLines(MergeStep(parsed.nets))]
       ELSE [written |-> FALSE, lines |-> <<>>]

Finished == pc \in {"done", "aborted"}
ThisRun == [written |-> pc = "done", lines |-> IF pc = "done" THEN file.lines ELSE <<>>]

Range(f) == {f[i] : i \in DOMAIN f}

\* the network a written line denotes
NetworkOfLine(l) == IPNetwork(l.address, l.prefixlen)
WrittenNetworks == [i \in 1..Len(file.lines) |-> NetworkOfLine(file.lines[i])]

\* addresses at which coverage is compared: every quarter of every /24 from
\* 0.255.255.0 to 1.0.4.0, and ::0 .. ::7
Probes ==
    {[version |-> 4, ip |-> 16777216 + 64 * j] : j \in (0 - 4)..19} \cup
    {[version |-> 6, ip |-> j] : j \in 0..7}

Covers(n, a) == n.version = a.version /\ First(n) <= a.ip /\ a.ip <= Last(n)
CoveredBy(nets, a) == \E i \in 1..Len(nets) : Covers(nets[i], a)

(***************************************************************************)
(* Claims about update_ip_list                                             *)
(***************************************************************************)
\* a relevant IPv4 record whose unit count is a positive number and no power of two
FractionalRecord(line) ==
    /\ Contains(line, "ipv4")
    /\ Len(line) >= 5
    /\ IsDecimal(line[5])
    /\ DecimalValue[line[5]] > 0
    /\ ~IsPow2(DecimalValue[line[5]])

\* C1: once the loop has consumed a relevant IPv4 record whose unit count is not a
\* power of two, the run is aborted with an error (an aborted run never reaches
\* the merge or the write, so no line is written).
C1_FractionalAborts ==
    (\E i \in 1..idx : FractionalRecord(feed[i])) => (pc = "aborted" /\ error # "none")

\* C2: a fetch status other than 200 leaves the run aborted with no line parsed
\* and chn_ip.list exactly as it was.
C2_FailedFetchTouchesNothing ==
    [][status' # 200 =>
          (file' = file /\ idx' = 0 /\ ipNetwork_list' = <<>>
           /\ pc' \notin {"parse", "write", "done"})]_vars

C2_Witness == status = 404 /\ pc = "aborted" /\ file = StaleFile

\* a relevant line with fewer fields than expected, or whose value or address
\* field does not convert
MalformedRecord(line) ==
    /\ Contains(line, "ipv4") \/ Contains(line, "ipv6")
    /\ \/ Len(line) < 5
       \/ ~IsDecimal(line[5])
       \/ line[4] \notin (DOMAIN IPv4Value \cup DOMAIN IPv6Value)

WellFormedRecord(line) ==
    /\ Contains(line, "ipv4") \/ Contains(line, "ipv6")
    /\ ~MalformedRecord(line)
    /\ DecimalValue[line[5]] > 0

\* C3: every malformed relevant line the loop has consumed was logged and skipped,
\* the run going on; and the written file covers every well-formed record.
C3_MalformedIsSkipped ==
    /\ \A i \in 1..idx : MalformedRecord(feed[i]) =>
           (i \in Range(warnings) /\ pc # "aborted")
    /\ pc = "done" =>
           \A i \in 1..Len(feed) : WellFormedRecord(feed[i]) =>
               \A a \in Probes : CoveredBy(ParseLine(feed[i]).nets, a)
                                     => CoveredBy(WrittenNetworks, a)

\* C5: the written networks cover exactly the addresses the parsed records cover.
C5_SameCoverage ==
    pc = "done" =>
        LET written == WrittenNetworks
            parsed == ParseAll(feed, <<>>).nets
        IN \A a \in Probes : CoveredBy(written, a) <=> CoveredBy(parsed, a)

\* nested and duplicate records went in, and the file covers what they cover
C5_Witness ==
    /\ pc = "done"
    /\ Len(ParseAll(feed, <<>>).nets) = 3
    /\ Len(file.lines) = 1
    /\ CoveredBy(WrittenNetworks, [version |-> 4, ip |-> 16777472])

\* C6: no written network is a subset of another written network (duplicates
\* included), so no two of them overlap.
C6_NoSubsumedNetwork ==
    pc = "done" =>
        \A i, j \in 1..Len(file.lines) :
            i # j => ~Within(WrittenNetworks[i], WrittenNetworks[j])

\* a duplicate or nested record was parsed
C6_Witness ==
    /\ pc = "done"
    /\ LET nets == ParseAll(feed, <<>>).nets
       IN \E i, j \in 1..Len(nets) : i # j /\ Within(nets[i], nets[j])

\* two blocks of one size that are the halves of one block of twice the size
Halves(a, b) ==
    /\ a.version = b.version
    /\ a.prefixlen = b.prefixlen
    /\ a.prefixlen >= 1
    /\ First(a) # First(b)
    /\ First(a) \div (2 * Size(a)) = First(b) \div (2 * Size(b))

AdjacentScenario ==
    <<Record("CN", "ipv4", "1.0.0.0", "256"), Record("CN", "ipv4", "1.0.1.0", "256")>>

\* C7: no two written networks are the two halves of one parent block; the two
\* adjacent /24s 1.0.0.0 and 1.0.1.0 are written as the single line 1.0.0.0/23.
C7_NoSiblings ==
    pc = "done" =>
        /\ \A i, j \in 1..Len(file.lines) : ~Halves(WrittenNetworks[i], WrittenNetworks[j])
        /\ feed = AdjacentScenario =>
               file.lines = <<[address |-> "1.0.0.0", prefixlen |-> 23]>>

\* a cascade: two /24s and a /23 were parsed and one /22 was written
C7_Witness ==
    /\ pc = "done"
    /\ Len(ParseAll(feed, <<>>).nets) = 3
    /\ \A i \in 1..3 : ParseAll(feed, <<>>).nets[i].prefixlen >= 23
    /\ file.lines = <<[address |-> "1.0.0.0", prefixlen |-> 22]>>

Permuted(lines, p) == [i \in 1..Len(lines) |-> lines[p[i]]]

Ascending(nets) ==
    \A i \in 1..(Len(nets) - 1) :
        \/ nets[i].version < nets[i + 1].version
        \/ nets[i].version = nets[i + 1].version /\ nets[i].ip < nets[i + 1].ip

\* C8: every permutation of the feed's lines ends as this run ended, with the
\* same file line for line, and the written networks ascend by address.
C8_OrderIndependent ==
    (Finished /\ status = 200) =>
        LET this == ThisRun
        IN /\ \A p \in Permutations(1..Len(feed)) : RunOf(Permuted(feed, p)) = this
           /\ pc = "done" => Ascending(WrittenNetworks)

\* a feed given out of address order, whose networks do not all merge
C8_Witness ==
    /\ pc = "done"
    /\ Len(file.lines) >= 2
    /\ ~Ascending(ParseAll(feed, <<>>).nets)

\* C9: merging the merged list again leaves it as it is, in content and order.
C9_Idempotent ==
    /\ pc = "write" => cidr_merge(ipNetwork_list) = ipNetwork_list
    /\ pc = "done" => OutputLines(cidr_merge(WrittenNetworks)) = file.lines

\* the first merge did change the list
C9_Witness ==
    /\ pc = "write"
    /\ Len(ipNetwork_list) >= 1
    /\ ipNetwork_list # ParseAll(feed, <<>>).nets


(***************************************************************************)
(* SpecPrefix: line 31 on the unit counts 2^0 .. 2^32, one double          *)
(* operation per step                                                      *)
(***************************************************************************)
InitPrefix ==
    /\ k \in 0..IPV4_WIDTH
    /\ ppc = "count"
    /\ numErr = 0
    /\ quotErr = 0
    /\ prefix = 0
    /\ IpIdle
    /\ ReleaseIdle

\* math.log: the logarithm of the count
LogNumerator ==
    /\ ppc = "count"
    /\ numErr' = LogNumErr(k)
    /\ ppc' = "numerator"
    /\ UNCHANGED <<k, quotErr, prefix, ipVars, releaseVars>>

\* math.log: the division by the logarithm of the base
LogQuotient ==
    /\ ppc = "numerator"
    /\ quotErr' = LogQuotErr(k, numErr)
    /\ ppc' = "quotient"
    /\ UNCHANGED <<k, numErr, prefix, ipVars, releaseVars>>

\* the subtraction from 32 and int()
Truncate ==
    /\ ppc = "quotient"
    /\ prefix' = IntOfDiff(k, quotErr)
    /\ ppc' = "done"
    /\ UNCHANGED <<k, numErr, quotErr, ipVars, releaseVars>>

NextPrefix == LogNumerator \/ LogQuotient \/ Truncate

SpecPrefix == InitPrefix /\ [][NextPrefix]_vars

\* C4: for the unit count 2^k, 0 <= k <= 32, the derived prefix length is
\* exactly 32 - k.
C4_ExactPrefix == ppc = "done" => prefix = IPV4_WIDTH - k

(***************************************************************************)
(* release.py                                                              *)
(***************************************************************************)
PROJECT_NAME == "mosdns"

\* lines 20-46
Matrix ==
    << <<<<"GOOS", "darwin">>, <<"GOARCH", "amd64">>>>,
       <<<<"GOOS", "darwin">>, <<"GOARCH", "arm64">>>>,
       <<<<"GOOS", "linux">>, <<"GOARCH", "amd64">>>>,
       <<<<"GOOS", "linux">>, <<"GOARCH", "arm">>, <<"GOARM", "5">>>>,
       <<<<"GOOS", "linux">>, <<"GOARCH", "arm">>, <<"GOARM", "6">>>>,
       <<<<"GOOS", "linux">>, <<"GOARCH", "arm">>, <<"GOARM", "7">>>>,
       <<<<"GOOS", "linux">>, <<"GOARCH", "arm64">>>>,
       <<<<"GOOS", "linux">>, <<"GOARCH", "mipsle">>, <<"GOMIPS", "softfloat">>>>,
       <<<<"GOOS", "linux">>, <<"GOARCH", "mips64">>, <<"GOMIPS64", "hardfloat">>>>,
       <<<<"GOOS", "freebsd">>, <<"GOARCH", "amd64">>>>,
       <<<<"GOOS", "windows">>, <<"GOARCH", "amd64">>>> >>

\* the command lines: -i absent, or -i N for N from -1 to len(envs)
Indices == {[given |-> FALSE, value |-> 0]}
               \cup {[given |-> TRUE, value |-> n] : n \in (0 - 1)..Len(Matrix)}

InitRelease ==
    /\ args \in [i : Indices, upx : BOOLEAN]
    /\ rpc = "select"
    /\ envs = Matrix
    /\ VERSION = "dev/unknown"
    /\ built = <<>>
    /\ IpIdle
    /\ PrefixIdle

\* line 53: the truth value of args.i
IndexGiven(i) == i.given /\ i.value # 0

\* envs[n] of a Python list: negative indices count from the end
PyIndexOk(list, n) == 0 - Len(list) <= n /\ n < Len(list)
PyIndex(list, n) == IF n < 0 THEN list[Len(list) + n + 1] ELSE list[n + 1]

\* lines 52-54
Select ==
    /\ rpc = "select"
    /\ IF ~IndexGiven(args.i)
       THEN envs' = envs /\ rpc' = "version"
       ELSE IF PyIndexOk(envs, args.i.value)
       THEN envs' = <<PyIndex(envs, args.i.value)>> /\ rpc' = "version"
       ELSE envs' = envs /\ rpc' = "aborted"
    /\ UNCHANGED <<args, VERSION, built, ipVars, prefixVars>>

\* lines 56-60: git describe; its failure is logged and the default kept
Describe ==
    /\ rpc = "version"
    /\ \E described \in BOOLEAN :
         VERSION' = IF described THEN "v1.0.0-0-g0000000" ELSE VERSION
    /\ rpc' = "config"
    /\ UNCHANGED <<args, envs, built, ipVars, prefixVars>>

\* lines 62-66: the config template; its failure is logged and raised again
GenConfig ==
    /\ rpc = "config"
    /\ \E generated \in BOOLEAN : rpc' = IF generated THEN "build" ELSE "aborted"
    /\ UNCHANGED <<args, envs, VERSION, built, ipVars, prefixVars>>

\* lines 71-75: the archive name, as the parts joined by '-' before '.zip'
RECURSIVE ZipParts(_)
ZipParts(env) == IF env = <<>> THEN <<>> ELSE <<Head(env)[2]>> \o ZipParts(Tail(env))
zip_filename(env) == <<PROJECT_NAME>> \o ZipParts(env)

\* os_env['GOOS'] after lines 72-73
Goos(env) == LET j == CHOOSE j \in 1..Len(env) : env[j][1] = "GOOS" IN env[j][2]

\* lines 77-78
bin_filename(env) == IF Goos(env) = "windows" THEN "mosdns.exe" ELSE "mosdns"

\* lines 68-105: one iteration of the for loop; a failed build or archive is logged
BuildOne ==
    /\ rpc = "build"
    /\ Len(built) < Len(envs)
    /\ LET env == envs[Len(built) + 1]
       IN \E outcome \in {"packaged", "failed"} :
            built' = Append(built, [env |-> env,
                                    zip |-> zip_filename(env),
                                    bin |-> bin_filename(env),
                                    version |-> VERSION,
                                    upx |-> args.upx,
                                    outcome |-> outcome])
    /\ UNCHANGED <<args, rpc, envs, VERSION, ipVars, prefixVars>>

\* the for loop is exhausted
BuildDone ==
    /\ rpc = "build"
    /\ Len(built) = Len(envs)
    /\ rpc' = "done"
    /\ UNCHANGED <<args, envs, VERSION, built, ipVars, prefixVars>>

NextRelease == Select \/ Describe \/ GenConfig \/ BuildOne \/ BuildDone

SpecRelease == InitRelease /\ [][NextRelease]_vars

\* C10: with -i N, 0 <= N < len(envs), go_build builds and packages exactly the
\* target envs[N]; with -i absent it goes through the whole matrix.
C10_IndexSelectsOne ==
    rpc = "done" =>
        /\ (args.i.given /\ args.i.value \in 0..(Len(Matrix) - 1)) =>
               (Len(built) = 1 /\ built[1].env = Matrix[args.i.value + 1])
        /\ ~args.i.given => [j \in 1..Len(built) |-> built[j].env] = Matrix

====
